---------------------------- MODULE Spec2Model ----------------------------
(***************************************************************************)
(* A model of beamer2animate: the converter that renders the content       *)
(* blocks of a Beamer frame to cumulative images, fits them to the slide,  *)
(* places them as picture shapes and builds the click-indexed timing tree. *)
(*                                                                         *)
(* Lengths are Python floats (inches) in the source.  They are modelled as *)
(* exact rationals [n, d]; python-pptx lengths are whole EMU (914400 per   *)
(* inch), obtained by truncation (Inches) or rounding (scaled picture      *)
(* height), and are modelled as integers.                                  *)
(***************************************************************************)
EXTENDS Integers, Sequences, FiniteSets, TLC

VARIABLES
    pc,               \* position in _process_frame / _add_animations
    frame,            \* the Frame being processed
    slide,            \* the slide of the frame: shapes and timing tree
    has_bg,           \* _process_frame: has_bg
    rendered_blocks,  \* _process_frame: rendered_blocks
    content_width,    \* _process_frame: content_width (inches, rational)
    current_top,      \* _process_frame: current_top (inches, rational)
    place_pos,        \* _process_frame: position of the Pass 3 loop
    shapes_by_block,  \* _process_frame: shapes_by_block
    click_index,      \* _add_animations: click_index
    anim_pos,         \* _add_animations: position of the block loop
    shape_idx,        \* _add_animations: shape_idx of the inner loop
    calls,            \* history: the add_appear_animation and
                      \* add_disappear_animation calls made on the slide
    block_pos,        \* _process_frame: position of the Pass 1 loop
    backend,          \* history: the calls made to pdflatex / fitz
    deck,             \* convert: doc.frames
    frame_idx,        \* convert: the number of frames taken from the deck
    prs,              \* convert: the slides of the earlier frames
    beamer_pdf_path   \* convert: TRUE when the Beamer PDF was compiled

layoutVars == <<has_bg, rendered_blocks, content_width, current_top, place_pos>>
animVars == <<click_index, anim_pos, shape_idx>>
renderVars == <<block_pos, backend>>
deckVars == <<deck, frame_idx, prs, beamer_pdf_path>>

vars ==
    <<pc, frame, slide, layoutVars, shapes_by_block, animVars, calls,
      renderVars, deckVars>>

---------------------------------------------------------------------------
(* Bounds of the model *)

MaxFitBlocks == 2
MaxAnimBlocks == 3
MaxAnimSteps == 2
MaxCalls == 3
MaxClick == 1
MaxBlocks == 2
MaxItems == 2
MaxFrames == 2

---------------------------------------------------------------------------
(* Exact rational arithmetic standing for Python float arithmetic *)

\* Euclid's algorithm, as a function so that its arguments are values.
Euclid[a \in Nat, b \in Nat] == IF b = 0 THEN a ELSE Euclid[b, a % b]

GCD(a, b) == Euclid[a, b]

Abs(a) == IF a < 0 THEN -a ELSE a

\* The arithmetic is written as functions: their arguments are values.
Rationals == [n : Int, d : Int]

Lowest[n \in Int, d \in Int] ==
    LET g == GCD(Abs(n), Abs(d))
        s == IF d < 0 THEN -1 ELSE 1
    IN  [n |-> s * (n \div g), d |-> s * (d \div g)]

Rat(n, d) == Lowest[n, d]

Sum[x \in Rationals, y \in Rationals] ==
    LET g == GCD(x.d, y.d)
    IN  Rat(x.n * (y.d \div g) + y.n * (x.d \div g), (x.d \div g) * y.d)

RAdd(x, y) == Sum[x, y]

RNeg(x) == [n |-> -x.n, d |-> x.d]
RSub(x, y) == RAdd(x, RNeg(y))

Product[x \in Rationals, y \in Rationals] ==
    LET a == Rat(x.n, y.d)
        b == Rat(y.n, x.d)
    IN  [n |-> a.n * b.n, d |-> a.d * b.d]

RMul(x, y) == Product[x, y]

RDiv(x, y) == RMul(x, Rat(y.d, y.n))

Less[x \in Rationals, y \in Rationals] ==
    LET g == GCD(x.d, y.d) IN x.n * (y.d \div g) < y.n * (x.d \div g)

RLt(x, y) == Less[x, y]
RLe(x, y) == ~Less[y, x]

Larger[x \in Rationals, y \in Rationals] == IF RLt(x, y) THEN y ELSE x

RMax(x, y) == Larger[x, y]

Zero == Rat(0, 1)

\* A length given in hundredths of an inch, in inches.
Hundredths(c) == Rat(c, 100)

---------------------------------------------------------------------------
(* Program constants, in hundredths of an inch *)

CONTENT_WIDTH == 1000
SLIDE_HEIGHT == 750
TOP_START_BG == 88
BOTTOM_MARGIN_BG == 60
TOP_START_NO_BG == 120
BOTTOM_MARGIN_NO_BG == 30
MIN_SCALE == 50
PLACE_TOP_BG == 88
PLACE_LEFT_BG == 80
PLACE_TOP_TITLE == 120
PLACE_TOP_NO_TITLE == 50
PLACE_LEFT_NO_BG == 100
TEXT_SPACING == 15
ENV_SPACING == 20

Spacings == {TEXT_SPACING, ENV_SPACING}

---------------------------------------------------------------------------
(* python-pptx lengths *)

\* pptx.util.Inches(x) for x >= 0: int(x * 914400), truncating.
Inches(x) ==
    LET g == GCD(914400, x.d)
        m == 914400 \div g
        d == x.d \div g
    IN  (x.n \div d) * m + ((x.n % d) * m) \div d

\* Length.inches: EMU as a float number of inches.
EmuInches(e) == Rat(e, 914400)

\* Python 3 round() of a / b, a >= 0, b > 0: to nearest, ties to even.
RoundHalfEven(a, b) ==
    LET q == a \div b
        r == a % b
    IN  IF 2 * r < b THEN q
        ELSE IF 2 * r > b THEN q + 1
        ELSE IF q % 2 = 0 THEN q ELSE q + 1

\* The height python-pptx gives a picture added with a width only: the
\* native height scaled by width / native width, rounded to whole EMU.
ScaledHeight(img, width_emu) == RoundHalfEven(img.h * width_emu, img.w)


---------------------------------------------------------------------------
(* pptx_builder.add_image_to_slide *)

\* python-pptx gives a new shape the largest id of the slide plus one; the
\* shape tree itself holds id 1.
RECURSIVE MaxShapeId(_)
MaxShapeId(shapes) ==
    IF shapes = <<>> THEN 1
    ELSE LET m == MaxShapeId(Tail(shapes))
         IN  IF Head(shapes).shape_id > m THEN Head(shapes).shape_id ELSE m

\* add_image_to_slide(slide, image_path, left, top, width): the picture
\* shape it returns.  Only a width is given, so the height keeps the
\* image's aspect ratio.
NewPicture(sl, img, left, top, width) ==
    [shape_id |-> MaxShapeId(sl.shapes) + 1,
     kind     |-> "picture",
     image    |-> img,
     left     |-> Inches(left),
     top      |-> Inches(top),
     width    |-> Inches(width),
     height   |-> ScaledHeight(img, Inches(width))]

AddImageToSlide(sl, img, left, top, width) ==
    [sl EXCEPT !.shapes = Append(@, NewPicture(sl, img, left, top, width))]

---------------------------------------------------------------------------
(* _process_frame: the slide before the content is placed *)

\* The page of the Beamer PDF rendered as the background image.
BgImage == [step |-> 0, content |-> <<>>, w |-> 4, h |-> 3]

\* pptx_builder.add_content_background: the white rectangle over the
\* content area of the background.
AddContentBackground(sl) ==
    [sl EXCEPT !.shapes = Append(@,
        [shape_id |-> MaxShapeId(sl.shapes) + 1,
         kind     |-> "rectangle",
         image    |-> <<>>,
         left     |-> Inches(Zero),
         top      |-> Inches(Hundredths(74)),
         width    |-> Inches(Rat(13333, 1000)),
         height   |-> Inches(Hundredths(611))])]

\* pptx_builder.add_title_to_slide: the title text box.
AddTitleToSlide(sl, title) ==
    [sl EXCEPT !.shapes = Append(@,
        [shape_id |-> MaxShapeId(sl.shapes) + 1,
         kind     |-> "textbox",
         image    |-> <<>>,
         left     |-> Inches(Hundredths(100)),
         top      |-> Inches(Hundredths(30)),
         width    |-> Inches(Rat(11333, 1000)),
         height   |-> Inches(Hundredths(80))])]

\* Mutant: neither background nor title is put on the slide.
FrameSetup_Bare(sl, bg, fr) == sl

\* The slide of an animated frame when Pass 1 starts: the background image
\* and the white rectangle, or the title, or nothing.
FrameSetup(sl, bg, fr) ==
    IF bg
    THEN AddContentBackground(
             AddImageToSlide(sl, BgImage, Zero, Zero, Rat(13333, 1000)))
    ELSE IF fr.title # "" THEN AddTitleToSlide(sl, fr.title)
    ELSE sl

---------------------------------------------------------------------------
(* BeamerConverter._fit_content_width *)

ContentWidth == Hundredths(CONTENT_WIDTH)

TopStart(bg) == Hundredths(IF bg THEN TOP_START_BG ELSE TOP_START_NO_BG)
BottomMargin(bg) ==
    Hundredths(IF bg THEN BOTTOM_MARGIN_BG ELSE BOTTOM_MARGIN_NO_BG)

AvailableHeight(bg) ==
    RSub(RSub(Hundredths(SLIDE_HEIGHT), TopStart(bg)), BottomMargin(bg))

\* Mutant: the first image of the block instead of the last.
LastImg_First(blk) == blk.image_paths[1]

\* The image _fit_content_width opens for a block: image_paths[-1].
LastImg(blk) == blk.image_paths[Len(blk.image_paths)]

\* What one block adds to total_image_height.
ImageHeight(blk) ==
    IF blk.image_paths = <<>> THEN Zero
    ELSE IF LastImg(blk).w > 0
         THEN RMul(Rat(LastImg(blk).h, LastImg(blk).w), ContentWidth)
         ELSE Zero

\* Mutant: the spacing of the last block counts too.
SpacingAt_Last(rb, i) ==
    IF rb[i].image_paths = <<>> THEN Zero ELSE Hundredths(rb[i].spacing)

\* What the block at position i (from 1) adds to total_spacing.
SpacingAt(rb, i) ==
    IF rb[i].image_paths = <<>> THEN Zero
    ELSE IF i < Len(rb) THEN Hundredths(rb[i].spacing) ELSE Zero

\* total_image_height and total_spacing after the first i blocks.
RECURSIVE TotalImageHeight(_, _)
TotalImageHeight(rb, i) ==
    IF i = 0 THEN Zero
    ELSE RAdd(TotalImageHeight(rb, i - 1), ImageHeight(rb[i]))

RECURSIVE TotalSpacing(_, _)
TotalSpacing(rb, i) ==
    IF i = 0 THEN Zero
    ELSE RAdd(TotalSpacing(rb, i - 1), SpacingAt(rb, i))

TotalHeight(rb) ==
    RAdd(TotalImageHeight(rb, Len(rb)), TotalSpacing(rb, Len(rb)))

\* Mutant: the scale without its floor.
Scale_NoFloor(target, total_image) == RDiv(target, total_image)

\* scale = max(target_image_height / total_image_height, 0.5)
Scale(target, total_image) ==
    RMax(RDiv(target, total_image), Hundredths(MIN_SCALE))

\* Mutant: the scale is applied without the test for overflow.
FitContentWidth_NoOverflowTest(rb, bg) ==
    IF rb = <<>> THEN ContentWidth
    ELSE RMul(ContentWidth,
              Scale(RSub(AvailableHeight(bg), TotalSpacing(rb, Len(rb))),
                    TotalImageHeight(rb, Len(rb))))

\* Mutant: the empty list gets the smallest width, not the base width.
FitContentWidth_EmptyShrunk(rb, bg) ==
    IF rb = <<>> THEN RMul(ContentWidth, Hundredths(MIN_SCALE))
    ELSE ContentWidth

FitContentWidth(rb, bg) ==
    IF rb = <<>> THEN ContentWidth
    ELSE LET total_image_height  == TotalImageHeight(rb, Len(rb))
             total_spacing       == TotalSpacing(rb, Len(rb))
             target_image_height == RSub(AvailableHeight(bg), total_spacing)
         IN  IF /\ RLt(AvailableHeight(bg), TotalHeight(rb))
                /\ RLt(Zero, total_image_height)
                /\ RLt(Zero, target_image_height)
             THEN RMul(ContentWidth,
                       Scale(target_image_height, total_image_height))
             ELSE ContentWidth

---------------------------------------------------------------------------
(* BeamerConverter._process_frame, Pass 3: placement *)

StartTop(bg, title) ==
    Hundredths(IF bg THEN PLACE_TOP_BG
               ELSE IF title # "" THEN PLACE_TOP_TITLE
               ELSE PLACE_TOP_NO_TITLE)

LeftMargin(bg) ==
    Hundredths(IF bg THEN PLACE_LEFT_BG ELSE PLACE_LEFT_NO_BG)

\* The slide after the inner loop has added the first i images of a block,
\* all at the same left, top and width.
RECURSIVE PlaceImages(_, _, _, _, _, _)
PlaceImages(sl, imgs, i, left, top, width) ==
    IF i = 0 THEN sl
    ELSE AddImageToSlide(PlaceImages(sl, imgs, i - 1, left, top, width),
                         imgs[i], left, top, width)

\* The shapes list of the block: the last n shapes of the slide.
LastShapes(sl, n) ==
    SubSeq(sl.shapes, Len(sl.shapes) - n + 1, Len(sl.shapes))

\* Mutant: the cursor moves below the first shape of the block.
AdvanceTop_FirstShape(top, shapes, spacing) ==
    IF shapes = <<>> THEN top
    ELSE RAdd(top, RAdd(EmuInches(shapes[1].height), Hundredths(spacing)))

\* current_top after a block with these shapes.
AdvanceTop(top, shapes, spacing) ==
    IF shapes = <<>> THEN top
    ELSE RAdd(top, RAdd(EmuInches(shapes[Len(shapes)].height),
                        Hundredths(spacing)))

---------------------------------------------------------------------------
(* The slide and its timing tree *)

\* The timing part of a slide element: how many p:timing elements the slide
\* holds, how many p:tnLst the timing, how many main p:par the tnLst, the
\* ids of the p:cTn of the main par, how many p:childTnLst it holds, the
\* cTn ids of the p:seq elements under it, and the click nodes (the p:par
\* children of the sequence), in document order.
NoTiming ==
    [timing |-> 0, tnLst |-> 0, par |-> 0, cTn |-> <<>>, childTnLst |-> 0,
     seq |-> <<>>, clicks |-> <<>>]

\* Mutant: a new slide has an empty timing element.
EmptySlide_TimingShell ==
    [shapes |-> <<>>, timing |-> [NoTiming EXCEPT !.timing = 1]]

\* A slide as add_slide returns it: no shape, no timing element.
EmptySlide == [shapes |-> <<>>, timing |-> NoTiming]

---------------------------------------------------------------------------
(* pptx_builder.add_appear_animation *)

\* Mutant: the entrance effect targets the shape tree, not the shape.
EntranceEffect_Untargeted(shape_id, click, delay) ==
    [id |-> 101 + click * 10, fill |-> "hold", delay |-> delay,
     set_id |-> 102 + click * 10, presetID |-> 1, presetClass |-> "entr",
     nodeType |-> "clickEffect", set_fill |-> "hold",
     inner_id |-> 103 + click * 10, dur |-> 1, inner_fill |-> "hold",
     spid |-> 1, attrName |-> "style.visibility", to |-> "visible"]

\* Mutant: the ids of the entrance effect do not depend on the click.
EntranceEffect_FixedIds(shape_id, click, delay) ==
    [id |-> 101, fill |-> "hold", delay |-> delay, set_id |-> 102,
     presetID |-> 1, presetClass |-> "entr", nodeType |-> "clickEffect",
     set_fill |-> "hold", inner_id |-> 103, dur |-> 1,
     inner_fill |-> "hold", spid |-> shape_id,
     attrName |-> "style.visibility", to |-> "visible"]

\* The inner parallel node holding the set animation that shows the shape.
EntranceEffect(shape_id, click, delay) ==
    [id          |-> 101 + click * 10,
     fill        |-> "hold",
     delay       |-> delay,
     set_id      |-> 102 + click * 10,
     presetID    |-> 1,
     presetClass |-> "entr",
     nodeType    |-> "clickEffect",
     set_fill    |-> "hold",
     inner_id    |-> 103 + click * 10,
     dur         |-> 1,
     inner_fill  |-> "hold",
     spid        |-> shape_id,
     attrName    |-> "style.visibility",
     to          |-> "visible"]

\* The parallel container made for the call: "each click creates a new
\* parallel container".
ClickPar(shape_id, click, delay) ==
    [id       |-> 100 + click * 10,
     fill     |-> "hold",
     delay    |-> "indefinite",
     children |-> <<EntranceEffect(shape_id, click, delay)>>]

\* Mutant: every call makes a sequence of its own.
EnsureSequence_Fresh(t0) ==
    [t0 EXCEPT !.timing = 1, !.tnLst = 1, !.par = 1, !.cTn = <<1>>,
               !.childTnLst = 1, !.seq = Append(@, 2)]

\* Get or create timing, tnLst, the main par with its cTn, childTnLst and
\* the sequence.
EnsureSequence(t0) ==
    LET t1 == IF t0.timing = 0 THEN [t0 EXCEPT !.timing = 1] ELSE t0
        t2 == IF t1.tnLst = 0 THEN [t1 EXCEPT !.tnLst = 1] ELSE t1
        t3 == IF t2.par = 0
              THEN [t2 EXCEPT !.par = 1, !.cTn = Append(@, 1)] ELSE t2
        t4 == IF t3.cTn = <<>> THEN [t3 EXCEPT !.cTn = <<1>>] ELSE t3
        t5 == IF t4.childTnLst = 0 THEN [t4 EXCEPT !.childTnLst = 1] ELSE t4
    IN  IF t5.seq = <<>> THEN [t5 EXCEPT !.seq = <<2>>] ELSE t5

\* Mutant: the new click container is put before the others.
AddAppearAnimation_Front(sl, shape_id, click, delay) ==
    [sl EXCEPT !.timing =
        [EnsureSequence(sl.timing) EXCEPT
            !.clicks = <<ClickPar(shape_id, click, delay)>> \o @]]

AddAppearAnimation(sl, shape_id, click, delay) ==
    [sl EXCEPT !.timing =
        [EnsureSequence(sl.timing) EXCEPT
            !.clicks = Append(@, ClickPar(shape_id, click, delay))]]

---------------------------------------------------------------------------
(* pptx_builder.add_disappear_animation *)

\* Mutant: the exit effect sets the shape visible.
ExitEffect_Visible(shape_id, click) ==
    [id |-> 200 + click * 10, fill |-> "hold", delay |-> 0,
     set_id |-> 201 + click * 10, presetID |-> 1, presetClass |-> "exit",
     nodeType |-> "withEffect", set_fill |-> "hold",
     inner_id |-> 202 + click * 10, dur |-> 1, inner_fill |-> "hold",
     spid |-> shape_id, attrName |-> "style.visibility", to |-> "visible"]

\* The parallel node holding the set animation that hides the shape.
ExitEffect(shape_id, click) ==
    [id          |-> 200 + click * 10,
     fill        |-> "hold",
     delay       |-> 0,
     set_id      |-> 201 + click * 10,
     presetID    |-> 1,
     presetClass |-> "exit",
     nodeType    |-> "withEffect",
     set_fill    |-> "hold",
     inner_id    |-> 202 + click * 10,
     dur         |-> 1,
     inner_fill  |-> "hold",
     spid        |-> shape_id,
     attrName    |-> "style.visibility",
     to          |-> "hidden"]

\* Mutant: the last click container is not found.
HasClickPar_Earlier(t, click) == click + 1 < Len(t.clicks)

\* The click container is found by position: click_pars[click_index].
\* Click indices are ordinals (0 = first click), never negative.
HasClickPar(t, click) == click < Len(t.clicks)

\* Mutant: a missing click container is created, as the appear call does.
AddDisappearAnimation_Creates(sl, shape_id, click) ==
    IF sl.timing.timing # 0 /\ HasClickPar(sl.timing, click)
    THEN [sl EXCEPT !.timing.clicks[click + 1].children =
                        Append(@, ExitEffect(shape_id, click))]
    ELSE [sl EXCEPT !.timing =
             [EnsureSequence(sl.timing) EXCEPT
                 !.clicks = Append(@, [id |-> 100 + click * 10,
                                       fill |-> "hold",
                                       delay |-> "indefinite",
                                       children |-> <<ExitEffect(shape_id, click)>>])]]

AddDisappearAnimation(sl, shape_id, click) ==
    IF sl.timing.timing = 0 \/ sl.timing.tnLst = 0 \/ sl.timing.par = 0
    THEN sl
    ELSE IF HasClickPar(sl.timing, click)
         THEN [sl EXCEPT !.timing.clicks[click + 1].children =
                             Append(@, ExitEffect(shape_id, click))]
         ELSE sl

---------------------------------------------------------------------------
(* renderer: markup is a sequence of tokens, an item a sequence of tokens *)

\* The blank line that separates two paragraphs.
ParBreak == "\n\n"

\* Commands that sanitize_beamer_content deletes.
BeamerCommands == {"\\pause", "\\vfill", "\\titlepage", "\\maketitle"}

\* sep.join(items), the items being token sequences.
RECURSIVE Join(_, _)
Join(items, sep) ==
    IF items = <<>> THEN <<>>
    ELSE IF Len(items) = 1 THEN items[1]
    ELSE items[1] \o sep \o Join(Tail(items), sep)

\* re.sub(r'\n\s*\n\s*\n', '\n\n', content): a run of blank lines is one.
RECURSIVE CleanWhitespace(_)
CleanWhitespace(content) ==
    IF Len(content) < 2 THEN content
    ELSE IF content[1] = ParBreak /\ content[2] = ParBreak
         THEN CleanWhitespace(Tail(content))
         ELSE <<content[1]>> \o CleanWhitespace(Tail(content))

\* content.strip()
RECURSIVE Strip(_)
Strip(content) ==
    IF content = <<>> THEN <<>>
    ELSE IF content[1] = ParBreak THEN Strip(Tail(content))
    ELSE IF content[Len(content)] = ParBreak
         THEN Strip(SubSeq(content, 1, Len(content) - 1))
         ELSE content

\* sanitize_beamer_content; the empty sequence is the empty string.
sanitize_beamer_content(content) ==
    Strip(CleanWhitespace(
        SelectSeq(content, LAMBDA t : t \notin BeamerCommands)))

\* create_styled_document: the body put between \begin{document} and
\* \end{document}, or the empty sequence when the function returns "".
create_styled_document(content, content_type) ==
    IF content_type = "text" THEN sanitize_beamer_content(content)
    ELSE content

\* The bitmap pdflatex and fitz give for a document: the page width is
\* kept, the height is cropped to the ink and grows with the content.
Bitmap(doc) == [w |-> 8, h |-> Len(doc)]

\* Mutant: a failed backend call still counts as a rendered image.
StepRendered_Always(doc, ok) == doc # <<>>

\* render_latex_to_image returns True: the document is not empty and
\* pdflatex and fitz succeeded.
StepRendered(doc, ok) == doc # <<>> /\ ok

\* Mutant: a step shows its own item only.
StepItems_Single(items, i) == <<items[i]>>

\* lines[:i], items[:i], paragraphs[:i]
StepItems(items, i) == SubSeq(items, 1, i)

\* _get_env_name(raw_content)
GetEnvName(raw_content) ==
    IF Len(raw_content) >= 2 /\ raw_content[1] = "\\begin"
    THEN raw_content[2] ELSE "align*"

\* The content string of one cumulative step.
AlignContent(lines, env_name) ==
    <<"\\begin", env_name>> \o Join(lines, <<"\\\\">>)
        \o <<"\\end", env_name>>

ItemizeContent(items, env_name) ==
    <<"\\begin", env_name>>
        \o Join([i \in 1..Len(items) |-> <<"\\item">> \o items[i]], <<>>)
        \o <<"\\end", env_name>>

TextContent(paragraphs) == Join(paragraphs, <<ParBreak>>)

\* Mutant: a listing is rendered like a display equation.
RenderKind_CodeRaw(block) ==
    CASE block.block_type = "TEXT" /\ block.items # <<>> -> "text"
      [] block.block_type = "MATH_ALIGN" -> "align"
      [] block.block_type \in {"DISPLAY_MATH", "CODE"} -> "raw"
      [] block.block_type \in {"ITEMIZE", "ENUMERATE"} -> "itemize"
      [] OTHER -> "none"

\* The render call of a block: "text", "align", "itemize" or "raw".
RenderKind(block) ==
    CASE block.block_type = "TEXT" /\ block.items # <<>> -> "text"
      [] block.block_type = "MATH_ALIGN" -> "align"
      [] block.block_type = "DISPLAY_MATH" -> "raw"
      [] block.block_type \in {"ITEMIZE", "ENUMERATE"} -> "itemize"
      [] OTHER -> "none"

\* The number of render_latex_to_image calls _render_block makes.
StepsOf(block) ==
    CASE RenderKind(block) = "raw" -> 1
      [] RenderKind(block) = "none" -> 0
      [] OTHER -> Len(block.items)

\* The content string _render_block's callee builds from a list of items.
ContentOf(block, items) ==
    CASE RenderKind(block) = "text" -> TextContent(items)
      [] RenderKind(block) = "align" ->
             AlignContent(items, GetEnvName(block.raw_content))
      [] RenderKind(block) = "itemize" ->
             ItemizeContent(items,
                 IF block.block_type = "ENUMERATE"
                 THEN "enumerate" ELSE "itemize")
      [] OTHER -> block.raw_content

\* The content of step i of a block.
StepContent(block, i) == ContentOf(block, StepItems(block.items, i))

ContentType(block) ==
    CASE RenderKind(block) = "text" -> "text"
      [] RenderKind(block) = "itemize" -> "itemize"
      [] OTHER -> "math"

StepDoc(block, i) ==
    create_styled_document(StepContent(block, i), ContentType(block))

\* The images of steps 1..i that render_latex_to_image wrote, in order;
\* outcomes[i] is what the backend does with the document of step i.
RECURSIVE ImagePaths(_, _, _)
ImagePaths(block, outcomes, i) ==
    IF i = 0 THEN <<>>
    ELSE LET doc == StepDoc(block, i)
             before == ImagePaths(block, outcomes, i - 1)
         IN  IF StepRendered(doc, outcomes[i])
             THEN Append(before, [step |-> i, content |-> doc,
                                  w |-> Bitmap(doc).w, h |-> Bitmap(doc).h])
             ELSE before

\* The backend calls of steps 1..i: none for an empty document.
RECURSIVE BackendCalls(_, _, _, _)
BackendCalls(block, block_idx, outcomes, i) ==
    IF i = 0 THEN <<>>
    ELSE LET before == BackendCalls(block, block_idx, outcomes, i - 1)
         IN  IF StepDoc(block, i) # <<>>
             THEN Append(before, [block_idx |-> block_idx, step |-> i,
                                  ok |-> outcomes[i]])
             ELSE before

\* Mutant: a block is animated when it has more than one item.
IsAnimated_ByItems(block) == Len(block.items) > 1

\* is_animated and spacing of the tuple _render_block returns.
IsAnimated(block) == ~(block.block_type = "TEXT" /\ Len(block.items) = 1)

SpacingOf(block) ==
    IF block.block_type = "TEXT" THEN TEXT_SPACING ELSE ENV_SPACING

\* Mutant: a block without image is kept, with a blank image.
Rendered_Blank(block, block_idx, image_paths) ==
    <<[block_idx |-> block_idx,
       image_paths |-> IF image_paths # <<>> THEN image_paths
                       ELSE <<[step |-> 0, content |-> <<>>,
                               w |-> 8, h |-> 1]>>,
       is_animated |-> IsAnimated(block), spacing |-> SpacingOf(block)]>>

\* What _render_block returns, as a list: the tuple when there is an
\* image, nothing when it returns None.
Rendered(block, block_idx, image_paths) ==
    IF image_paths # <<>>
    THEN <<[block_idx |-> block_idx, image_paths |-> image_paths,
            is_animated |-> IsAnimated(block), spacing |-> SpacingOf(block)]>>
    ELSE <<>>

\* _render_block(block, block_idx, ...)
RenderBlock(block, block_idx, outcomes) ==
    Rendered(block, block_idx, ImagePaths(block, outcomes, StepsOf(block)))

---------------------------------------------------------------------------
(* Actions of _process_frame: Pass 1 *)

\* What a pdflatex run does: it leaves a PDF ("ok"), it leaves none
\* ("failed", also standing for a fitz error), it exceeds the timeout, or
\* the program is missing.
BackendOutcomes == {"ok", "failed", "timeout", "missing"}

\* subprocess.run raises TimeoutExpired or FileNotFoundError.
Raises(outcome) == outcome \in {"timeout", "missing"}

\* Mutant: only the missing program is caught.
Caught_MissingOnly(outcome) == outcome = "missing"

\* except (subprocess.TimeoutExpired, FileNotFoundError)
Caught(outcome) == outcome \in {"timeout", "missing"}

\* The exception leaves convert.
Aborts(outcome) == Raises(outcome) /\ ~Caught(outcome)

\* The body of the Pass 1 loop: render the next block, keep the result.
RenderNextBlock ==
    /\ pc = "render"
    /\ block_pos < Len(frame.blocks)
    /\ LET block == frame.blocks[block_pos + 1]
       IN  \E kinds \in [1..StepsOf(block) -> BackendOutcomes] :
              LET outcomes == [i \in 1..StepsOf(block) |-> kinds[i] = "ok"]
              IN  IF \E i \in 1..StepsOf(block) :
                         StepDoc(block, i) # <<>> /\ Aborts(kinds[i])
                  THEN /\ pc' = "aborted"
                       /\ UNCHANGED <<rendered_blocks, renderVars>>
                  ELSE /\ pc' = pc
                       /\ rendered_blocks' =
                              rendered_blocks
                                  \o RenderBlock(block, block_pos, outcomes)
                       /\ backend' =
                              backend
                                  \o BackendCalls(block, block_pos, outcomes,
                                                  StepsOf(block))
                       /\ block_pos' = block_pos + 1
    /\ UNCHANGED <<deckVars, frame, slide, has_bg, content_width,
                   current_top, place_pos, shapes_by_block, animVars, calls>>

\* Mutant: the fit may start before every block is rendered.
RenderDone_Early ==
    /\ pc = "render"
    /\ pc' = "fit"
    /\ UNCHANGED <<deckVars,
                   frame, slide, layoutVars, shapes_by_block, animVars,
                   calls, renderVars>>

\* Pass 1 is over.
RenderDone ==
    /\ pc = "render"
    /\ block_pos = Len(frame.blocks)
    /\ pc' = "fit"
    /\ UNCHANGED <<deckVars,
                   frame, slide, layoutVars, shapes_by_block, animVars,
                   calls, renderVars>>

---------------------------------------------------------------------------
(* Actions of _process_frame: Pass 2 and Pass 3 *)

\* content_width = self._fit_content_width(rendered_blocks, has_bg), and
\* the start of Pass 3.
FitWidth ==
    /\ pc = "fit"
    /\ content_width' = FitContentWidth(rendered_blocks, has_bg)
    /\ current_top' = StartTop(has_bg, frame.title)
    /\ place_pos' = 1
    /\ shapes_by_block' = <<>>
    /\ pc' = "place"
    /\ UNCHANGED <<deckVars, renderVars,
                   frame, slide, has_bg, rendered_blocks, animVars, calls>>

\* One turn of the Pass 3 loop: every image of the block is added at the
\* same position, then the cursor moves below the last one.
PlaceBlock ==
    /\ pc = "place"
    /\ place_pos <= Len(rendered_blocks)
    /\ LET blk    == rendered_blocks[place_pos]
           placed == PlaceImages(slide, blk.image_paths, Len(blk.image_paths),
                                 LeftMargin(has_bg), current_top, content_width)
           shapes == LastShapes(placed, Len(blk.image_paths))
       IN  /\ slide' = placed
           /\ current_top' = AdvanceTop(current_top, shapes, blk.spacing)
           /\ shapes_by_block' =
                  Append(shapes_by_block,
                         [block_idx   |-> blk.block_idx,
                          shapes      |-> shapes,
                          is_animated |-> blk.is_animated])
    /\ place_pos' = place_pos + 1
    /\ UNCHANGED <<deckVars, renderVars,
                   pc, frame, has_bg, rendered_blocks, content_width,
                   animVars, calls>>

\* Pass 3 is over: every rendered block has its shapes on the slide.
Placed == pc = "place" /\ place_pos > Len(rendered_blocks)

---------------------------------------------------------------------------
(* BeamerConverter._add_animations *)

AppearCall(shape, click) ==
    [op |-> "appear", shape_id |-> shape.shape_id, click_index |-> click]

DisappearCall(shape, click) ==
    [op |-> "disappear", shape_id |-> shape.shape_id, click_index |-> click]

\* Mutant: the click counter is not advanced.
NextClick_Same(click) == click

\* click_index += 1
NextClick(click) == click + 1

\* self._add_animations(slide, shapes_by_block): click_index = 0.
StartAnimations ==
    /\ Placed
    /\ pc' = "anim_block"
    /\ click_index' = 0
    /\ anim_pos' = 1
    /\ shape_idx' = 0
    /\ UNCHANGED <<deckVars, renderVars,
                   frame, slide, layoutVars, shapes_by_block, calls>>

\* One turn of the block loop up to the first call: a block without
\* shapes is skipped, else its first shape appears on the next click.
AnimBlock ==
    /\ pc = "anim_block"
    /\ anim_pos <= Len(shapes_by_block)
    /\ LET shapes == shapes_by_block[anim_pos].shapes
       IN  IF shapes = <<>>
           THEN /\ anim_pos' = anim_pos + 1
                /\ UNCHANGED <<pc, slide, calls, click_index, shape_idx>>
           ELSE /\ slide' = AddAppearAnimation(slide, shapes[1].shape_id,
                                               click_index, 0)
                /\ calls' = Append(calls, AppearCall(shapes[1], click_index))
                /\ click_index' = NextClick(click_index)
                /\ shape_idx' = 1
                /\ IF Len(shapes) > 1
                   THEN pc' = "anim_appear" /\ anim_pos' = anim_pos
                   ELSE pc' = "anim_block" /\ anim_pos' = anim_pos + 1
    /\ UNCHANGED <<deckVars, renderVars, frame, layoutVars, shapes_by_block>>

\* Inner loop: add_appear_animation(slide, shapes[shape_idx], click_index).
AnimAppear ==
    /\ pc = "anim_appear"
    /\ LET shapes == shapes_by_block[anim_pos].shapes
       IN  /\ slide' = AddAppearAnimation(slide, shapes[shape_idx + 1].shape_id,
                                          click_index, 0)
           /\ calls' = Append(calls,
                              AppearCall(shapes[shape_idx + 1], click_index))
    /\ pc' = "anim_disappear"
    /\ UNCHANGED <<deckVars,
                   renderVars, frame, layoutVars, shapes_by_block, animVars>>

\* Mutant: the shape hidden is the one that has just appeared.
PreviousShape_Current(shapes, done) == shapes[done + 1]

\* shapes[i - 1], the shape shown before the one that has just appeared,
\* `done` shapes of the block having been fully handled.
PreviousShape(shapes, done) == shapes[done]

\* Inner loop: add_disappear_animation(slide, shapes[shape_idx - 1],
\* click_index), then click_index += 1 and the next shape or block.
AnimDisappear ==
    /\ pc = "anim_disappear"
    /\ LET shapes == shapes_by_block[anim_pos].shapes
           prev == PreviousShape(shapes, shape_idx)
       IN  /\ slide' = AddDisappearAnimation(slide, prev.shape_id, click_index)
           /\ calls' = Append(calls, DisappearCall(prev, click_index))
           /\ IF shape_idx + 1 < Len(shapes)
              THEN pc' = "anim_appear" /\ anim_pos' = anim_pos
              ELSE pc' = "anim_block" /\ anim_pos' = anim_pos + 1
    /\ click_index' = NextClick(click_index)
    /\ shape_idx' = shape_idx + 1
    /\ UNCHANGED <<deckVars, renderVars, frame, layoutVars, shapes_by_block>>

\* The block loop is over: _add_animations and _process_frame return.
AnimReturn ==
    /\ pc = "anim_block"
    /\ anim_pos > Len(shapes_by_block)
    /\ pc' = "frame_done"
    /\ UNCHANGED <<deckVars, renderVars,
                   frame, slide, layoutVars, shapes_by_block, animVars, calls>>

---------------------------------------------------------------------------
(* BeamerConverter.convert *)

\* _is_static_frame(frame)
IsStaticFrame(fr) ==
    \/ fr.has_code
    \/ "\\titlepage" \in {fr.raw_content[i] : i \in DOMAIN fr.raw_content}
    \/ "\\maketitle" \in {fr.raw_content[i] : i \in DOMAIN fr.raw_content}

\* The slide of a static frame: the background image, or the title.
StaticSlide(sl, bg, fr) ==
    IF bg THEN AddImageToSlide(sl, BgImage, Zero, Zero, Rat(13333, 1000))
    ELSE IF fr.title # "" THEN AddTitleToSlide(sl, fr.title)
    ELSE sl

\* Mutant: the slide of a static frame is not kept.
PrsSlides_DropStatic ==
    IF frame_idx = 0 \/ IsStaticFrame(frame) THEN prs
    ELSE Append(prs, [frame_idx |-> frame_idx - 1, slide |-> slide,
                      backend |-> backend, calls |-> calls])

\* prs.slides: the slides of the earlier frames and the slide of the
\* frame in hand, each with the index of its frame and the backend and
\* animation calls made for it.
PrsSlides ==
    IF frame_idx = 0 THEN prs
    ELSE Append(prs, [frame_idx |-> frame_idx - 1, slide |-> slide,
                      backend |-> backend, calls |-> calls])

\* compile_beamer_to_pdf: the path of the PDF, or None.
CompileBeamer ==
    /\ pc = "compile"
    /\ \E outcome \in BackendOutcomes :
          IF Aborts(outcome)
          THEN pc' = "aborted" /\ UNCHANGED beamer_pdf_path
          ELSE pc' = "frames" /\ beamer_pdf_path' = (outcome = "ok")
    /\ UNCHANGED <<frame, slide, layoutVars, shapes_by_block, animVars,
                   calls, renderVars, deck, frame_idx, prs>>

\* The next round of the loop over doc.frames: _process_frame up to
\* Pass 1, or up to its return for a static frame.
StartFrame ==
    /\ pc \in {"frames", "frame_done"}
    /\ frame_idx < Len(deck)
    /\ LET fr == deck[frame_idx + 1]
       IN  \E bg \in (IF beamer_pdf_path THEN BOOLEAN ELSE {FALSE}) :
              /\ frame' = fr
              /\ has_bg' = bg
              /\ slide' = IF IsStaticFrame(fr)
                          THEN StaticSlide(EmptySlide, bg, fr)
                          ELSE FrameSetup(EmptySlide, bg, fr)
              /\ pc' = IF IsStaticFrame(fr) THEN "frame_done" ELSE "render"
    /\ prs' = PrsSlides
    /\ frame_idx' = frame_idx + 1
    /\ rendered_blocks' = <<>>
    /\ content_width' = ContentWidth
    /\ current_top' = Zero
    /\ place_pos' = 0
    /\ shapes_by_block' = <<>>
    /\ click_index' = 0
    /\ anim_pos' = 0
    /\ shape_idx' = 0
    /\ calls' = <<>>
    /\ block_pos' = 0
    /\ backend' = <<>>
    /\ UNCHANGED <<deck, beamer_pdf_path>>

\* The loop is over: save_presentation(prs, output_path).
Save ==
    /\ pc \in {"frames", "frame_done"}
    /\ frame_idx = Len(deck)
    /\ pc' = "saved"
    /\ UNCHANGED <<frame, slide, layoutVars, shapes_by_block, animVars,
                   calls, renderVars, deckVars>>

---------------------------------------------------------------------------
(* _fit_content_width and placement over bounded lists of rendered blocks *)

\* Pixel sizes (w, h) of the images: aspect ratios from a third of the
\* content width to twice the content width.
FitSizes ==
    {[w |-> 3, h |-> 1], [w |-> 2, h |-> 1], [w |-> 5, h |-> 3],
     [w |-> 1, h |-> 1], [w |-> 5, h |-> 6], [w |-> 1, h |-> 2]}

\* A spacing so large that the spacing alone exceeds the slide height.
BigSpacing == 700

FitImage(size, i) ==
    [step |-> i, content |-> <<>>, w |-> size.w, h |-> size.h]

\* Rendered blocks: one image, or a first image followed by a last one.
FitBlocks ==
    {[block_idx |-> 0, image_paths |-> <<FitImage(s, 1)>>,
      is_animated |-> (sp # TEXT_SPACING), spacing |-> sp] :
        s \in FitSizes, sp \in Spacings \cup {BigSpacing}}
    \cup
    {[block_idx |-> 0,
      image_paths |-> <<FitImage(p[1], 1), FitImage(p[2], 2)>>,
      is_animated |-> TRUE, spacing |-> sp] :
        p \in {<<[w |-> 2, h |-> 1], [w |-> 1, h |-> 1]>>,
               <<[w |-> 1, h |-> 2], [w |-> 3, h |-> 1]>>},
        sp \in Spacings}

\* The blocks numbered by their position, as enumerate() numbers them.
Numbered(rb) == [i \in 1..Len(rb) |-> [rb[i] EXCEPT !.block_idx = i - 1]]

\* Three blocks whose scaled heights all round up to the next EMU.
RoundingCase ==
    LET blk(h, sp) == [block_idx |-> 0,
                       image_paths |-> <<FitImage([w |-> 10, h |-> h], 1)>>,
                       is_animated |-> TRUE, spacing |-> sp]
    IN  <<blk(1, TEXT_SPACING), blk(2, ENV_SPACING), blk(7, TEXT_SPACING)>>

FitInputs ==
    UNION {{Numbered(rb) : rb \in [1..n -> FitBlocks]} : n \in 0..MaxFitBlocks}
    \cup {Numbered(RoundingCase)}

InitFit ==
    /\ pc = "fit"
    /\ frame \in {[title |-> t, blocks |-> <<>>] : t \in {"", "Title"}}
    /\ has_bg \in BOOLEAN
    /\ slide = FrameSetup(EmptySlide, has_bg, frame)
    /\ rendered_blocks \in FitInputs
    /\ content_width = ContentWidth
    /\ current_top = Zero
    /\ place_pos = 0
    /\ shapes_by_block = <<>>
    /\ click_index = 0
    /\ anim_pos = 0
    /\ shape_idx = 0
    /\ calls = <<>>
    /\ block_pos = 0
    /\ backend = <<>>
    /\ deck = <<frame>>
    /\ frame_idx = 1
    /\ prs = <<>>
    /\ beamer_pdf_path = has_bg

NextFit == FitWidth \/ PlaceBlock

SpecFit == InitFit /\ [][NextFit]_vars

---------------------------------------------------------------------------
(* Placement and _add_animations over bounded lists of step counts *)

\* The cumulative images of a block with k steps: step i shows i items and
\* is i units tall.
StepImages(k) == [i \in 1..k |-> [step |-> i, content |-> <<>>, w |-> 8, h |-> i]]

AnimBlocks ==
    {[block_idx |-> 0, image_paths |-> StepImages(k),
      is_animated |-> TRUE, spacing |-> ENV_SPACING] : k \in 1..MaxAnimSteps}

AnimInputs ==
    UNION {{Numbered(rb) : rb \in [1..n -> AnimBlocks]} : n \in 0..MaxAnimBlocks}

InitAnim ==
    /\ pc = "fit"
    /\ frame = [title |-> "Title", blocks |-> <<>>]
    /\ has_bg \in BOOLEAN
    /\ slide = FrameSetup(EmptySlide, has_bg, frame)
    /\ rendered_blocks \in AnimInputs
    /\ content_width = ContentWidth
    /\ current_top = Zero
    /\ place_pos = 0
    /\ shapes_by_block = <<>>
    /\ click_index = 0
    /\ anim_pos = 0
    /\ shape_idx = 0
    /\ calls = <<>>
    /\ block_pos = 0
    /\ backend = <<>>
    /\ deck = <<frame>>
    /\ frame_idx = 1
    /\ prs = <<>>
    /\ beamer_pdf_path = has_bg

NextAnim ==
    \/ FitWidth
    \/ PlaceBlock
    \/ StartAnimations
    \/ AnimBlock
    \/ AnimAppear
    \/ AnimDisappear
    \/ AnimReturn

SpecAnim == InitAnim /\ [][NextAnim]_vars

---------------------------------------------------------------------------
(* add_appear_animation and add_disappear_animation called in any order *)

\* The slide of the animation tests: three pictures of 200 x 100 pixels,
\* 5 in wide, 2 in apart.
TEST_SHAPES == 3

RECURSIVE SlideWithShapes(_)
SlideWithShapes(n) ==
    IF n = 0 THEN EmptySlide
    ELSE AddImageToSlide(SlideWithShapes(n - 1),
                         [step |-> n, content |-> <<>>, w |-> 200, h |-> 100],
                         Zero, Hundredths(200 * (n - 1)), Hundredths(500))

InitTree ==
    /\ pc = "api"
    /\ frame = [title |-> "", blocks |-> <<>>]
    /\ has_bg = FALSE
    /\ slide = SlideWithShapes(TEST_SHAPES)
    /\ rendered_blocks = <<>>
    /\ content_width = ContentWidth
    /\ current_top = Zero
    /\ place_pos = 0
    /\ shapes_by_block = <<>>
    /\ click_index = 0
    /\ anim_pos = 0
    /\ shape_idx = 0
    /\ calls = <<>>
    /\ block_pos = 0
    /\ backend = <<>>
    /\ deck = <<>>
    /\ frame_idx = 0
    /\ prs = <<>>
    /\ beamer_pdf_path = has_bg

\* add_appear_animation(slide, shape, click_index)
CallAppear ==
    /\ pc = "api"
    /\ Len(calls) < MaxCalls
    /\ \E i \in 1..Len(slide.shapes), c \in 0..MaxClick :
          /\ slide' = AddAppearAnimation(slide, slide.shapes[i].shape_id, c, 0)
          /\ calls' = Append(calls, AppearCall(slide.shapes[i], c))
    /\ UNCHANGED <<deckVars, renderVars,
                   pc, frame, layoutVars, shapes_by_block, animVars>>

\* add_disappear_animation(slide, shape, click_index)
CallDisappear ==
    /\ pc = "api"
    /\ Len(calls) < MaxCalls
    /\ \E i \in 1..Len(slide.shapes), c \in 0..MaxClick :
          /\ slide' = AddDisappearAnimation(slide, slide.shapes[i].shape_id, c)
          /\ calls' = Append(calls, DisappearCall(slide.shapes[i], c))
    /\ UNCHANGED <<deckVars, renderVars,
                   pc, frame, layoutVars, shapes_by_block, animVars>>

NextTree == CallAppear \/ CallDisappear

SpecTree == InitTree /\ [][NextTree]_vars

---------------------------------------------------------------------------
(* _process_frame over bounded frames, the backend failing at will *)

\* Equation lines and list items.
Lines == <<"x=1", "y=2", "z=3", "w=4">>

ItemsUpTo(n) == [i \in 1..n |-> <<Lines[i]>>]

Environment(env_name, items) ==
    <<"\\begin", env_name>> \o Join(items, <<>>) \o <<"\\end", env_name>>

TextBlock(paragraphs) ==
    [block_type |-> "TEXT", raw_content |-> Join(paragraphs, <<ParBreak>>),
     items |-> paragraphs]

EnvBlock(block_type, env_name, items) ==
    [block_type |-> block_type, raw_content |-> Environment(env_name, items),
     items |-> items]

\* Text as parse_frame_content splits it: one paragraph; two paragraphs,
\* the second after a \pause; a \vfill alone; a \vfill before a paragraph.
TextBlocks ==
    {TextBlock(<<<<"A">>>>),
     TextBlock(<<<<"A">>, <<"\\pause", "B">>>>),
     TextBlock(<<<<"\\vfill">>>>),
     TextBlock(<<<<"\\vfill">>, <<"A">>>>)}

RenderBlocks ==
    TextBlocks
    \cup {EnvBlock("MATH_ALIGN", "align*", ItemsUpTo(n)) : n \in 1..MaxItems}
    \cup {EnvBlock("ITEMIZE", "itemize", ItemsUpTo(2)),
          EnvBlock("ENUMERATE", "enumerate", ItemsUpTo(2)),
          EnvBlock("DISPLAY_MATH", "equation", ItemsUpTo(1)),
          [block_type |-> "CODE",
           raw_content |-> Environment("lstlisting", ItemsUpTo(1)),
           items |-> <<>>]}

\* Frames of at most MaxBlocks blocks: two blocks of any kind, the blocks
\* after them text.
RenderFrames ==
    UNION {{f \in [1..n -> RenderBlocks] :
                \A i \in 3..n : f[i] \in TextBlocks} : n \in 0..MaxBlocks}

InitRender ==
    /\ pc = "render"
    /\ frame \in {[title |-> "Title", blocks |-> b] : b \in RenderFrames}
    /\ has_bg \in BOOLEAN
    /\ slide = FrameSetup(EmptySlide, has_bg, frame)
    /\ rendered_blocks = <<>>
    /\ content_width = ContentWidth
    /\ current_top = Zero
    /\ place_pos = 0
    /\ shapes_by_block = <<>>
    /\ click_index = 0
    /\ anim_pos = 0
    /\ shape_idx = 0
    /\ calls = <<>>
    /\ block_pos = 0
    /\ backend = <<>>
    /\ deck = <<frame>>
    /\ frame_idx = 1
    /\ prs = <<>>
    /\ beamer_pdf_path = has_bg

NextRender ==
    \/ RenderNextBlock
    \/ RenderDone
    \/ FitWidth
    \/ PlaceBlock
    \/ StartAnimations
    \/ AnimBlock
    \/ AnimAppear
    \/ AnimDisappear
    \/ AnimReturn

SpecRender == InitRender /\ [][NextRender]_vars

---------------------------------------------------------------------------
(* convert over bounded decks, the backend failing at will *)

DeckFrame(title, blocks, raw_content) ==
    [title |-> title, raw_content |-> raw_content, blocks |-> blocks,
     has_code |-> "lstlisting" \in {raw_content[i] : i \in DOMAIN raw_content}]

\* parse_beamer of a frame holding one piece of content.
FrameOf(title, block) == DeckFrame(title, <<block>>, block.raw_content)

\* A title page, a listing, two equation lines, a \vfill alone.
DeckFrames ==
    {FrameOf("", TextBlock(<<<<"\\titlepage">>>>)),
     FrameOf("Code", [block_type |-> "CODE",
                      raw_content |-> Environment("lstlisting", ItemsUpTo(1)),
                      items |-> <<>>]),
     FrameOf("Math", EnvBlock("MATH_ALIGN", "align*", ItemsUpTo(2))),
     FrameOf("", TextBlock(<<<<"\\vfill">>>>))}

Decks == UNION {[1..n -> DeckFrames] : n \in 0..MaxFrames}

\* convert after parse_beamer, before compile_beamer_to_pdf.
ConvertStart(frames) ==
    /\ pc = "compile"
    /\ deck = frames
    /\ frame_idx = 0
    /\ prs = <<>>
    /\ beamer_pdf_path = FALSE
    /\ frame = DeckFrame("", <<>>, <<>>)
    /\ slide = EmptySlide
    /\ has_bg = FALSE
    /\ rendered_blocks = <<>>
    /\ content_width = ContentWidth
    /\ current_top = Zero
    /\ place_pos = 0
    /\ shapes_by_block = <<>>
    /\ click_index = 0
    /\ anim_pos = 0
    /\ shape_idx = 0
    /\ calls = <<>>
    /\ block_pos = 0
    /\ backend = <<>>

InitDeck == \E frames \in Decks : ConvertStart(frames)

NextDeck ==
    \/ CompileBeamer
    \/ StartFrame
    \/ RenderNextBlock
    \/ RenderDone
    \/ FitWidth
    \/ PlaceBlock
    \/ StartAnimations
    \/ AnimBlock
    \/ AnimAppear
    \/ AnimDisappear
    \/ AnimReturn
    \/ Save

SpecDeck == InitDeck /\ [][NextDeck]_vars

\* convert is one sequential thread: it runs as long as it has a step.
SpecDeckLive == SpecDeck /\ WF_vars(NextDeck)

---------------------------------------------------------------------------
(* convert on the sample document of the tests *)

\* Three frames: a list of three items, two equation lines, two
\* paragraphs.
SampleDeck ==
    <<FrameOf("First Slide", EnvBlock("ITEMIZE", "itemize", ItemsUpTo(3))),
      FrameOf("Math Slide", EnvBlock("MATH_ALIGN", "align*", ItemsUpTo(2))),
      FrameOf("Text Slide", TextBlock(<<<<"First">>, <<"Second">>>>))>>

InitSample == ConvertStart(SampleDeck)

SpecSample == InitSample /\ [][NextDeck]_vars

---------------------------------------------------------------------------
(* The slides convert makes and the slides the animation calls are made on *)

InitSlides == InitDeck \/ InitTree

NextSlides == NextDeck \/ NextTree

SpecSlides == InitSlides /\ [][NextSlides]_vars

---------------------------------------------------------------------------
(* Claims about _fit_content_width and placement *)

Half == Rat(1, 2)

\* The fit has run: content_width holds what _fit_content_width returned.
Fitted == pc = "place"

\* C5: for every list of rendered blocks and either background setting,
\* the width _fit_content_width returns lies between half the content
\* width and the content width.
C5_FitWidthInRange ==
    Fitted => /\ RLe(RMul(Half, Hundredths(CONTENT_WIDTH)), content_width)
              /\ RLe(content_width, Hundredths(CONTENT_WIDTH))

\* C5 witness: an overflowing list was scaled to a width strictly between
\* the two limits.
C5_Witness ==
    /\ Fitted
    /\ rendered_blocks # <<>>
    /\ RLt(RMul(Half, Hundredths(CONTENT_WIDTH)), content_width)
    /\ RLt(content_width, Hundredths(CONTENT_WIDTH))

\* C6: for the empty list of rendered blocks _fit_content_width returns
\* exactly the base content width, with and without a background.
C6_EmptyListBaseWidth ==
    (Fitted /\ rendered_blocks = <<>>)
        => content_width = Hundredths(CONTENT_WIDTH)

\* C6 witness: the fit has run on the empty list, with a background.
C6_Witness == Fitted /\ rendered_blocks = <<>> /\ has_bg

\* The height of the stacked content after Pass 3, in EMU: the last shape
\* of every block plus the spacing between consecutive blocks (a hundredth
\* of an inch is 9144 EMU).
RECURSIVE StackedHeight(_, _, _)
StackedHeight(sb, rb, i) ==
    IF i = 0 THEN 0
    ELSE StackedHeight(sb, rb, i - 1)
         + sb[i].shapes[Len(sb[i].shapes)].height
         + (IF i < Len(rb) THEN 9144 * rb[i].spacing ELSE 0)

Stacked == StackedHeight(shapes_by_block, rendered_blocks, Len(rendered_blocks))

\* canvasHeight - topOffset - bottomMargin
Available ==
    IF has_bg THEN Hundredths(SLIDE_HEIGHT - TOP_START_BG - BOTTOM_MARGIN_BG)
    ELSE Hundredths(SLIDE_HEIGHT - TOP_START_NO_BG - BOTTOM_MARGIN_NO_BG)

\* The spacings are those _render_block gives its blocks.
RenderSpacings == \A i \in 1..Len(rendered_blocks) :
                      rendered_blocks[i].spacing \in Spacings

\* The height the images need at the base content width (the last step of
\* every block), and the spacing between consecutive blocks.
RECURSIVE NeededImageHeight(_, _)
NeededImageHeight(rb, i) ==
    IF i = 0 THEN Zero
    ELSE LET last == rb[i].image_paths[Len(rb[i].image_paths)]
         IN  RAdd(NeededImageHeight(rb, i - 1),
                  RMul(Rat(last.h, last.w), Hundredths(CONTENT_WIDTH)))

RECURSIVE NeededSpacing(_, _)
NeededSpacing(rb, i) ==
    IF i = 0 THEN Zero
    ELSE RAdd(NeededSpacing(rb, i - 1),
              IF i < Len(rb) THEN Hundredths(rb[i].spacing) ELSE Zero)

\* The content fits as it is, or the scale it needs,
\* (available - spacing) / image height, is at least the floor of 0.5.
FloorNotHit ==
    LET img == NeededImageHeight(rendered_blocks, Len(rendered_blocks))
        sp  == NeededSpacing(rendered_blocks, Len(rendered_blocks))
    IN  \/ RLe(RAdd(img, sp), Available)
        \/ RLe(RMul(Half, img), RSub(Available, sp))

\* C7 as claimed: once every block is placed at the fitted width, the
\* stacked content (last-step heights plus spacing between consecutive
\* blocks) does not exceed canvasHeight - topOffset - bottomMargin.
C7_Original ==
    (Placed /\ RenderSpacings) => Stacked <= Inches(Available)

\* C7 amended: the stacked content does not exceed the available height
\* whenever the scale it needs is at least 0.5, up to the rounding of every
\* shape height to whole EMU (at most half an EMU per block).
C7_FitsUnlessFloor ==
    (Placed /\ RenderSpacings /\ FloorNotHit)
        => 2 * Stacked <= 2 * Inches(Available) + Len(rendered_blocks)

\* C7 witness: two or more blocks that overflow at the base width were
\* scaled down, above the floor, and placed.
C7_Witness ==
    /\ Placed /\ RenderSpacings /\ FloorNotHit
    /\ Len(rendered_blocks) >= 2
    /\ RLt(content_width, Hundredths(CONTENT_WIDTH))

\* The rounding to whole EMU can carry the stacked content past the
\* available height: without the allowance the amended C7 fails.
C7_NoRounding ==
    (Placed /\ RenderSpacings /\ FloorNotHit) => Stacked <= Inches(Available)

---------------------------------------------------------------------------
(* Claims about _add_animations and the timing tree *)

Appears == SelectSeq(calls, LAMBDA x : x.op = "appear")
Disappears == SelectSeq(calls, LAMBDA x : x.op = "disappear")

Range(f) == {f[i] : i \in DOMAIN f}

\* _add_animations has returned.
AnimDone == pc = "frame_done"

StepCount(j) == Len(shapes_by_block[j].shapes)

RECURSIVE SumSteps(_)
SumSteps(j) == IF j = 0 THEN 0 ELSE SumSteps(j - 1) + StepCount(j)

\* C1: for blocks of k_1..k_n steps (each at least 1) _add_animations makes
\* sum k_j appear calls and sum (k_j - 1) disappear calls, and the click
\* indices of the appear calls are 0, 1, ..., sum k_j - 1 in this order.
C1_EventCounts ==
    AnimDone =>
        LET n == Len(shapes_by_block)
        IN  /\ Len(Appears) = SumSteps(n)
            /\ Len(Disappears) = SumSteps(n) - n
            /\ \A i \in 1..Len(Appears) : Appears[i].click_index = i - 1

\* C1 witness: blocks of 1, 2 and 1 steps gave 4 appear calls at clicks
\* 0, 1, 2, 3 and 1 disappear call.
C1_Witness ==
    /\ AnimDone
    /\ Len(shapes_by_block) = 3
    /\ StepCount(1) = 1 /\ StepCount(2) = 2 /\ StepCount(3) = 1
    /\ [i \in 1..Len(Appears) |-> Appears[i].click_index] = <<0, 1, 2, 3>>
    /\ Len(Disappears) = 1

\* C2: in a block whose first step appears at click c, step i appears at
\* click c + i - 1 and, for i > 1, the shape of step i - 1 disappears at
\* that same click c + i - 1.
C2_StepClicks ==
    AnimDone =>
        \A j \in 1..Len(shapes_by_block) :
            LET shapes == shapes_by_block[j].shapes
            IN  \E c \in 0..Len(calls) :
                  /\ AppearCall(shapes[1], c) \in Range(calls)
                  /\ \A i \in 1..Len(shapes) :
                        /\ AppearCall(shapes[i], c + i - 1) \in Range(calls)
                        /\ i > 1 =>
                             DisappearCall(shapes[i - 1], c + i - 1)
                                 \in Range(calls)

\* C2 witness: a block of two steps, not the first of the slide, whose
\* second step appeared and whose first step disappeared at click 2.
C2_Witness ==
    /\ AnimDone
    /\ \E j \in 2..Len(shapes_by_block) :
          /\ StepCount(j) = 2
          /\ AppearCall(shapes_by_block[j].shapes[1], 1) \in Range(calls)
          /\ AppearCall(shapes_by_block[j].shapes[2], 2) \in Range(calls)
          /\ DisappearCall(shapes_by_block[j].shapes[1], 2) \in Range(calls)

\* The shapes visible once the effects of one click node have fired.
RECURSIVE ApplyEffects(_, _, _)
ApplyEffects(visible, children, i) ==
    IF i = 0 THEN visible
    ELSE LET before == ApplyEffects(visible, children, i - 1)
         IN  IF children[i].to = "visible"
             THEN before \cup {children[i].spid}
             ELSE before \ {children[i].spid}

\* The shapes visible after the first n clicks of the timing tree, every
\* shape being hidden before the first click.
RECURSIVE VisibleAfter(_, _)
VisibleAfter(clicks, n) ==
    IF n = 0 THEN {}
    ELSE ApplyEffects(VisibleAfter(clicks, n - 1), clicks[n].children,
                      Len(clicks[n].children))

BlockShapeIds(j) ==
    {shapes_by_block[j].shapes[i].shape_id : i \in 1..StepCount(j)}

\* C3: replaying the timing tree built by _add_animations click by click,
\* at most one step shape of any block is visible after every click.
C3_OneStepVisible ==
    AnimDone =>
        \A n \in 0..Len(slide.timing.clicks), j \in 1..Len(shapes_by_block) :
            Cardinality(VisibleAfter(slide.timing.clicks, n)
                            \cap BlockShapeIds(j)) <= 1

\* C3 witness: a block of two steps whose last step alone is visible after
\* the last click.
C3_Witness ==
    /\ AnimDone
    /\ \E j \in 1..Len(shapes_by_block) :
          /\ StepCount(j) = 2
          /\ VisibleAfter(slide.timing.clicks, Len(slide.timing.clicks))
                 \cap BlockShapeIds(j)
             = {shapes_by_block[j].shapes[2].shape_id}

\* The last call made on the slide in the step.
LastCall == calls'[Len(calls')]

---------------------------------------------------------------------------
(* Claims about rendering and the whole frame *)

\* The block with index b has been through Pass 1.
ProcessedBlocks == 0..(block_pos - 1)

BlockAt(b) == frame.blocks[b + 1]

\* The rendered block of block b: a list of one entry, or of none.
EntryOf(b) == SelectSeq(rendered_blocks, LAMBDA r : r.block_idx = b)

\* The step numbers of the images of block b, in the order returned.
StepsReturned(b) ==
    IF EntryOf(b) = <<>> THEN <<>>
    ELSE [i \in 1..Len(EntryOf(b)[1].image_paths) |->
              EntryOf(b)[1].image_paths[i].step]

\* The steps of block b for which the backend was called, and the
\* outcome of these calls.
Succeeded(b) == {c.step : c \in {x \in Range(backend) : x.block_idx = b /\ x.ok}}
Failed(b) == {c.step : c \in {x \in Range(backend) : x.block_idx = b /\ ~x.ok}}

\* The members of a set of step numbers in increasing order.
Increasing(S, k) == SelectSeq([i \in 1..k |-> i], LAMBDA i : i \in S)

\* A block of an animatable type with at least two reveal items.
Cumulative(block) ==
    /\ block.block_type \in {"TEXT", "MATH_ALIGN", "ITEMIZE", "ENUMERATE"}
    /\ Len(block.items) >= 2

\* The first i paragraphs of a Text block leave nothing once sanitised.
EmptyText(block, i) ==
    /\ block.block_type = "TEXT"
    /\ sanitize_beamer_content(
           Join(SubSeq(block.items, 1, i), <<ParBreak>>)) = <<>>

\* The images of block b are built from the first i items, i being the
\* step number of the image.
BuiltFromPrefixes(b) ==
    \A r \in Range(EntryOf(b)) : \A img \in Range(r.image_paths) :
        img.content =
            create_styled_document(
                ContentOf(BlockAt(b), SubSeq(BlockAt(b).items, 1, img.step)),
                ContentType(BlockAt(b)))

\* C8 as stated: a block of k >= 2 items on which no backend call failed
\* has exactly the steps 1..k, step i built from the first i items.
C8_Original ==
    \A b \in ProcessedBlocks :
        (Cumulative(BlockAt(b)) /\ Failed(b) = {}) =>
            /\ StepsReturned(b) = [i \in 1..Len(BlockAt(b).items) |-> i]
            /\ BuiltFromPrefixes(b)

\* C8: a Text, MathAlignment, Itemize or Enumerate block of k >= 2 items on
\* which no backend call failed has, in order, the steps i of 1..k except
\* those of a Text block whose first i paragraphs are empty once sanitised
\* (no backend call is made for them); step i is built from the first i
\* items.
C8_CumulativeSteps ==
    \A b \in ProcessedBlocks :
        (Cumulative(BlockAt(b)) /\ Failed(b) = {}) =>
            /\ StepsReturned(b) =
                   Increasing({i \in 1..Len(BlockAt(b).items) :
                                   ~EmptyText(BlockAt(b), i)},
                              Len(BlockAt(b).items))
            /\ BuiltFromPrefixes(b)

\* C8 witness: an equation block of two lines rendered as steps 1, 2 and a
\* Text block of two paragraphs, the first a \vfill, rendered as step 2
\* only, the backend never failing.
C8_Witness ==
    /\ block_pos = 2
    /\ Len(frame.blocks) = 2
    /\ BlockAt(0).block_type = "MATH_ALIGN"
    /\ Failed(0) = {} /\ StepsReturned(0) = <<1, 2>>
    /\ BlockAt(1).block_type = "TEXT"
    /\ Failed(1) = {} /\ Len(BlockAt(1).items) = 2
    /\ StepsReturned(1) = <<2>>

\* The surviving steps of every block are placed and animated.
SurvivorsAnimated ==
    AnimDone =>
        \A b \in ProcessedBlocks :
            Succeeded(b) # {} =>
                \E j \in 1..Len(shapes_by_block) :
                    /\ shapes_by_block[j].block_idx = b
                    /\ [i \in 1..StepCount(j) |->
                            shapes_by_block[j].shapes[i].image.step]
                       = StepsReturned(b)
                    /\ \A i \in 1..StepCount(j) : \E c \in 0..Len(calls) :
                           AppearCall(shapes_by_block[j].shapes[i], c)
                               \in Range(calls)

\* C9 as stated: the steps absent from a block are exactly those on which
\* the backend failed.
C9_Original ==
    /\ \A b \in ProcessedBlocks :
           Failed(b) # {} =>
               /\ StepsReturned(b) =
                      Increasing((1..StepsOf(BlockAt(b))) \ Failed(b),
                                 StepsOf(BlockAt(b)))
               /\ Succeeded(b) = {} => EntryOf(b) = <<>>
    /\ SurvivorsAnimated

\* C9: the steps of a block are, in their original order, those on which
\* the backend was called and succeeded: a step on which it failed is
\* absent, as is a step of a Text block never sent to the backend because
\* its text is empty once sanitised.  A block without surviving step gives
\* no rendered block; the other blocks are rendered, placed and animated.
C9_FailedStepsDropped ==
    /\ \A b \in ProcessedBlocks :
           /\ StepsReturned(b) =
                  Increasing(Succeeded(b), StepsOf(BlockAt(b)))
           /\ Succeeded(b) = {} => EntryOf(b) = <<>>
    /\ SurvivorsAnimated

\* C9 witness: every step of the first block failed, the first step of
\* the second block failed, and its second step is placed and animated.
C9_Witness ==
    /\ AnimDone
    /\ Len(frame.blocks) = 2
    /\ Failed(0) = {1, 2} /\ EntryOf(0) = <<>>
    /\ Failed(1) = {1} /\ StepsReturned(1) = <<2>>
    /\ Len(shapes_by_block) = 1
    /\ shapes_by_block[1].block_idx = 1
    /\ AppearCall(shapes_by_block[1].shapes[1], 0) \in Range(calls)

\* The indices of the blocks that were not skipped, in frame order.
KeptIdx ==
    SelectSeq([i \in 1..Len(frame.blocks) |-> i - 1],
              LAMBDA b : Succeeded(b) # {})

Skipped(b) == b \in ProcessedBlocks /\ EntryOf(b) = <<>>

\* Pass 1 on the frame without its skipped blocks, the backend doing on
\* every step of the other blocks what it did.
WithoutSkipped ==
    [j \in 1..Len(KeptIdx) |->
        RenderBlock(BlockAt(KeptIdx[j]), j - 1,
                    [i \in 1..StepsOf(BlockAt(KeptIdx[j])) |->
                         i \in Succeeded(KeptIdx[j])])[1]]

\* Pass 3 on a list of rendered blocks placed at a width: current_top
\* when block j is placed.
RECURSIVE TopOf(_, _, _)
TopOf(rb, j, width) ==
    IF j = 1 THEN StartTop(has_bg, frame.title)
    ELSE AdvanceTop(TopOf(rb, j - 1, width),
                    <<[height |-> ScaledHeight(LastImg(rb[j - 1]),
                                               Inches(width))]>>,
                    rb[j - 1].spacing)

\* _add_animations on a list of rendered blocks: the click of the first
\* step of block j.
RECURSIVE FirstClickOf(_, _)
FirstClickOf(rb, j) ==
    IF j = 1 THEN 0
    ELSE FirstClickOf(rb, j - 1) + Len(rb[j - 1].image_paths)

\* C10: the blocks that were not skipped get the vertical positions, the
\* widths and the click indices they get in the frame without the skipped
\* blocks.
C10_SkippedConsumeNothing ==
    AnimDone =>
        LET without == WithoutSkipped
            width   == FitContentWidth(without, has_bg)
        IN  /\ Len(shapes_by_block) = Len(without)
            /\ \A j \in 1..Len(without) :
                  LET shapes == shapes_by_block[j].shapes
                      imgs   == without[j].image_paths
                      top    == Inches(TopOf(without, j, width))
                      click  == FirstClickOf(without, j)
                  IN  /\ shapes_by_block[j].block_idx = KeptIdx[j]
                      /\ Len(shapes) = Len(imgs)
                      /\ \A i \in 1..Len(shapes) :
                            /\ shapes[i].image = imgs[i]
                            /\ shapes[i].top = top
                            /\ shapes[i].width = Inches(width)
                            /\ AppearCall(shapes[i], click + i - 1)
                                   \in Range(calls)

\* C10 witness: the first block of the frame was skipped after a failed
\* backend call, and the two steps of the second block are at the top of
\* the content area, at clicks 0 and 1.
C10_Witness ==
    /\ AnimDone
    /\ Len(frame.blocks) = 2
    /\ Skipped(0) /\ Failed(0) # {}
    /\ Len(shapes_by_block) = 1
    /\ shapes_by_block[1].block_idx = 1
    /\ StepCount(1) = 2
    /\ shapes_by_block[1].shapes[1].top
           = Inches(StartTop(has_bg, frame.title))
    /\ AppearCall(shapes_by_block[1].shapes[1], 0) \in Range(calls)
    /\ AppearCall(shapes_by_block[1].shapes[2], 1) \in Range(calls)

---------------------------------------------------------------------------
(* Claims about convert *)

\* convert has saved the presentation.
Saved == pc = "saved"

\* C11: after convert has processed a deck of n frames the presentation
\* holds exactly n slides, the i-th one made for the i-th frame.
C11_OneSlidePerFrame ==
    Saved =>
        /\ Len(PrsSlides) = Len(deck)
        /\ \A i \in 1..Len(PrsSlides) : PrsSlides[i].frame_idx = i - 1

\* C11 witness: a deck of an animated frame whose renders all failed and a
\* static frame gave two slides.
C11_Witness ==
    /\ Saved
    /\ Len(deck) = 2
    /\ ~IsStaticFrame(deck[1]) /\ IsStaticFrame(deck[2])
    /\ deck[1].blocks[1].block_type = "MATH_ALIGN"
    /\ PrsSlides[1].slide.timing = NoTiming
    /\ Len(PrsSlides) = 2

\* No backend call of any frame failed.
AllRendersSucceeded ==
    \A i \in 1..Len(PrsSlides) : \A c \in Range(PrsSlides[i].backend) : c.ok

\* The number of click nodes of a slide.
Clicks(sl) == Len(sl.timing.clicks)

\* The pictures of the reveal steps: every picture but the background.
StepPictures(sl) ==
    SelectSeq(sl.shapes, LAMBDA sh : sh.kind = "picture" /\ sh.image # BgImage)

\* The shapes _process_frame puts on the slide before the content.
ChromeShapes(sl) ==
    SelectSeq(sl.shapes, LAMBDA sh : sh.kind # "picture" \/ sh.image = BgImage)

\* C12 as stated: the three slides hold 3, 2 and 2 shapes and 3, 2 and 2
\* clicks.
C12_Original ==
    (Saved /\ AllRendersSucceeded) =>
        /\ Len(PrsSlides) = 3
        /\ [i \in 1..3 |-> Len(PrsSlides[i].slide.shapes)] = <<3, 2, 2>>
        /\ [i \in 1..3 |-> Clicks(PrsSlides[i].slide)] = <<3, 2, 2>>

\* C12: the sample deck, all renders succeeding, yields 3 slides with 3, 2
\* and 2 step pictures and 3, 2 and 2 clicks; every slide holds in
\* addition the background picture and the white rectangle (2 shapes) when
\* its background was extracted, and the title text box (1 shape) when it
\* was not.
C12_SampleDeck ==
    (Saved /\ AllRendersSucceeded) =>
        /\ Len(PrsSlides) = 3
        /\ [i \in 1..3 |-> Len(StepPictures(PrsSlides[i].slide))] = <<3, 2, 2>>
        /\ [i \in 1..3 |-> Clicks(PrsSlides[i].slide)] = <<3, 2, 2>>
        /\ \A i \in 1..3 :
              LET chrome == ChromeShapes(PrsSlides[i].slide)
              IN  \/ [j \in 1..Len(chrome) |-> chrome[j].kind]
                         = <<"picture", "rectangle">>
                  \/ [j \in 1..Len(chrome) |-> chrome[j].kind] = <<"textbox">>

\* C12 witness: the deck converted with every render succeeding, the first
\* slide with its background (5 shapes), the last one without (3 shapes).
C12_Witness ==
    /\ Saved
    /\ AllRendersSucceeded
    /\ Len(PrsSlides) = 3
    /\ Len(PrsSlides[1].slide.shapes) = 5
    /\ Len(PrsSlides[3].slide.shapes) = 3
    /\ Clicks(PrsSlides[1].slide) = 3

---------------------------------------------------------------------------
(* Claims about the timing tree under any sequence of calls *)

\* The event an effect node of the tree stands for: the kind from its
\* preset class, the shape from its target, the click index from its id.
EventOf(effect) ==
    IF effect.presetClass = "entr"
    THEN [op |-> "appear", shape_id |-> effect.spid,
          click_index |-> (effect.id - 101) \div 10]
    ELSE [op |-> "disappear", shape_id |-> effect.spid,
          click_index |-> (effect.id - 200) \div 10]

\* The events of the first n click nodes, in document order.
RECURSIVE ReadBack(_, _)
ReadBack(clicks, n) ==
    IF n = 0 THEN <<>>
    ELSE ReadBack(clicks, n - 1)
             \o [i \in 1..Len(clicks[n].children) |->
                     EventOf(clicks[n].children[i])]

TreeEvents == ReadBack(slide.timing.clicks, Len(slide.timing.clicks))

\* The number of appear calls among the first n calls.
AppearsBefore(n) ==
    Cardinality({i \in 1..n : calls[i].op = "appear"})

\* The position of the click node the n-th call wrote into: an appear call
\* makes the next node, a disappear call uses the node at its click index;
\* -1 when there was no such node.
LandedAt(n) ==
    IF calls[n].op = "appear" THEN AppearsBefore(n - 1)
    ELSE IF calls[n].click_index < AppearsBefore(n - 1)
         THEN calls[n].click_index ELSE -1

\* The calls that wrote into click node c, in call order.
CallsInto(c) ==
    LET idx == SelectSeq([n \in 1..Len(calls) |-> n],
                         LAMBDA n : LandedAt(n) = c)
    IN  [k \in 1..Len(idx) |-> calls[idx[k]]]

RECURSIVE CallsByNode(_)
CallsByNode(c) ==
    IF c = 0 THEN <<>> ELSE CallsByNode(c - 1) \o CallsInto(c - 1)

\* C13 as stated: the events read back from the tree are the calls, in
\* call order.
C13_Original == TreeEvents = calls

\* C13: the events read back from the tree are those of the calls that
\* changed it (every appear call, and every disappear call whose click
\* index had a click node), ordered by click node and, within a click
\* node, in call order.
C13_ReadBack == TreeEvents = CallsByNode(AppearsBefore(Len(calls)))

\* C13 witness: an appear at click 1, an appear at click 0 and a disappear
\* at click 0 were read back as the appear at 1, the disappear at 0 and
\* the appear at 0.
C13_Witness ==
    /\ Len(calls) = 3
    /\ [i \in 1..3 |-> <<calls[i].op, calls[i].click_index>>]
           = <<<<"appear", 1>>, <<"appear", 0>>, <<"disappear", 0>>>>
    /\ [i \in 1..3 |-> <<TreeEvents[i].op, TreeEvents[i].click_index>>]
           = <<<<"appear", 1>>, <<"disappear", 0>>, <<"appear", 0>>>>

\* No add_appear_animation call among these calls.
NoAppear(cs) == \A i \in 1..Len(cs) : cs[i].op # "appear"

\* C14: a slide on which add_appear_animation was never called has no
\* timing element: the slide of a static frame, the slide of a frame
\* without rendered block, a slide that only had add_disappear_animation
\* calls.
C14_NoAppearNoTiming ==
    /\ NoAppear(calls) => slide.timing = NoTiming
    /\ \A i \in 1..Len(PrsSlides) :
          NoAppear(PrsSlides[i].calls) => PrsSlides[i].slide.timing = NoTiming

\* C14 witness: a deck of a static frame and a frame whose renders all
\* failed was saved, both slides without timing element.
C14_Witness ==
    /\ Saved
    /\ Len(PrsSlides) = 2
    /\ IsStaticFrame(deck[1])
    /\ ~IsStaticFrame(deck[2])
    /\ PrsSlides[2].backend # <<>>
    /\ \A c \in Range(PrsSlides[2].backend) : ~c.ok
    /\ PrsSlides[1].slide.timing = NoTiming
    /\ PrsSlides[2].slide.timing = NoTiming

---------------------------------------------------------------------------
(* Claims about the tuples _render_block returns *)

\* C15 as stated: is_animated is true exactly for the rendered blocks of
\* more than one step; a block of one item and a DisplayMath block give
\* one step and is_animated false.
C15_Original ==
    \A r \in Range(rendered_blocks) :
        /\ r.is_animated <=> Len(r.image_paths) > 1
        /\ (\/ Len(BlockAt(r.block_idx).items) = 1
            \/ BlockAt(r.block_idx).block_type = "DISPLAY_MATH")
               => Len(r.image_paths) = 1 /\ ~r.is_animated

\* C15: is_animated is false exactly for a Text block of a single
\* paragraph and true for every other rendered block, whatever the number
\* of its steps; a block of one item and a DisplayMath block give exactly
\* one step, the DisplayMath block with is_animated true.
C15_AnimatedFlag ==
    \A r \in Range(rendered_blocks) :
        LET block == BlockAt(r.block_idx)
        IN  /\ ~r.is_animated <=>
                   (block.block_type = "TEXT" /\ Len(block.items) = 1)
            /\ (Len(block.items) = 1 \/ block.block_type = "DISPLAY_MATH")
                   => Len(r.image_paths) = 1
            /\ block.block_type = "DISPLAY_MATH" => r.is_animated

\* C15 witness: a Text block of one paragraph rendered with is_animated
\* false and a DisplayMath block rendered as one step with is_animated
\* true.
C15_Witness ==
    /\ Len(rendered_blocks) = 2
    /\ BlockAt(0).block_type = "TEXT"
    /\ Len(rendered_blocks[1].image_paths) = 1
    /\ ~rendered_blocks[1].is_animated
    /\ BlockAt(1).block_type = "DISPLAY_MATH"
    /\ Len(rendered_blocks[2].image_paths) = 1
    /\ rendered_blocks[2].is_animated

\* C16: a Code block gives no rendered block and no backend call, and so
\* no shape and no appear or disappear call.
C16_CodeNeverRendered ==
    \A b \in ProcessedBlocks :
        BlockAt(b).block_type = "CODE" =>
            /\ EntryOf(b) = <<>>
            /\ \A c \in Range(backend) : c.block_idx # b
            /\ \A j \in 1..Len(shapes_by_block) :
                  shapes_by_block[j].block_idx # b

\* C16 witness: a frame of a Code block and a list, the list animated at
\* clicks 0 and 1 and placed at the top of the content area.
C16_Witness ==
    /\ AnimDone
    /\ Len(frame.blocks) = 2
    /\ BlockAt(0).block_type = "CODE"
    /\ Len(shapes_by_block) = 1
    /\ shapes_by_block[1].block_idx = 1
    /\ StepCount(1) = 2
    /\ shapes_by_block[1].shapes[1].top
           = Inches(StartTop(has_bg, frame.title))
    /\ Len(slide.timing.clicks) = 2

---------------------------------------------------------------------------
(* Claims about convert under backend failures *)

\* Every frame of the deck has its slide, in the order of the frames.
AllFramesProcessed ==
    /\ Len(PrsSlides) = Len(deck)
    /\ \A k \in 1..Len(PrsSlides) : PrsSlides[k].frame_idx = k - 1

\* C17: whatever the backend does (a PDF, none, a timeout, a missing
\* program), for the Beamer compile and for every block, convert reaches
\* save_presentation with one slide for every frame of the deck.
C17_ReachesSave == <>(Saved /\ AllFramesProcessed)

\* C17 witness: the Beamer compile gave no PDF and every backend call of
\* the first frame failed; the second frame has been rendered, placed
\* and animated, and the presentation is saved.
C17_Witness ==
    /\ Saved
    /\ Len(deck) = 2
    /\ ~beamer_pdf_path
    /\ AllFramesProcessed
    /\ PrsSlides[1].backend # <<>>
    /\ \A c \in Range(PrsSlides[1].backend) : ~c.ok
    /\ PrsSlides[1].slide.timing = NoTiming
    /\ \E c \in Range(PrsSlides[2].backend) : ~c.ok
    /\ \E c \in Range(PrsSlides[2].backend) : c.ok
    /\ PrsSlides[2].slide.shapes # <<>>

---------------------------------------------------------------------------
(* Claims about the click nodes of the timing tree *)

\* The click index a click node was made for, read from its id.
ClickOf(node) == (node.id - 100) \div 10

\* C18 as stated: the sequence holds at most one click node per click
\* index, an appear call for an index that has a node making no other.
C18_OneNodePerClick ==
    \A i, j \in 1..Len(slide.timing.clicks) :
        ClickOf(slide.timing.clicks[i]) = ClickOf(slide.timing.clicks[j])
            => i = j

C20_ExitInNodeOfItsClick ==
    \A i \in 1..Len(slide.timing.clicks) :
        \A k \in 1..Len(slide.timing.clicks[i].children) :
            LET effect == slide.timing.clicks[i].children[k]
            IN  effect.presetClass = "exit" =>
                    EventOf(effect).click_index
                        = ClickOf(slide.timing.clicks[i])

---------------------------------------------------------------------------
(* Claims about the effects add_appear_animation writes *)

\* The effect nodes of the first n click nodes, in document order.
RECURSIVE EffectsOf(_, _)
EffectsOf(clicks, n) ==
    IF n = 0 THEN <<>> ELSE EffectsOf(clicks, n - 1) \o clicks[n].children

\* The entrance effects of the slide, in document order.
Entrances ==
    SelectSeq(EffectsOf(slide.timing.clicks, Len(slide.timing.clicks)),
              LAMBDA e : e.presetClass = "entr")

\* The k-th entrance effect targets the shape of the k-th appear call and
\* sets its visibility to visible, holding, with this duration.
EntrancesMatch(dur) ==
    /\ Len(Entrances) = Len(Appears)
    /\ \A k \in 1..Len(Entrances) :
          /\ Entrances[k].spid = Appears[k].shape_id
          /\ Entrances[k].attrName = "style.visibility"
          /\ Entrances[k].to = "visible"
          /\ Entrances[k].dur = dur
          /\ Entrances[k].fill = "hold"
          /\ Entrances[k].set_fill = "hold"
          /\ Entrances[k].inner_fill = "hold"

\* C21 as stated: every appear call added one entrance effect on its
\* shape, setting the visibility to visible with duration zero and a
\* hold fill.
C21_Original == EntrancesMatch(0)

\* C21: every appear call added one entrance effect on its shape, setting
\* the visibility to visible with dur="1" (one millisecond) and a hold
\* fill; a disappear call adds none.
C21_EntranceEffect == EntrancesMatch(1)

\* C21 witness: appear calls on two different shapes and a disappear call
\* that wrote its exit effect.
C21_Witness ==
    /\ Len(Appears) = 2
    /\ Appears[1].shape_id # Appears[2].shape_id
    /\ Len(Disappears) = 1
    /\ Len(EffectsOf(slide.timing.clicks, Len(slide.timing.clicks))) = 3
    /\ Entrances[2].spid = Appears[2].shape_id

---------------------------------------------------------------------------
(* Claims about the width _fit_content_width returns *)

One == Rat(1, 1)

\* x clamped to the range [0.5, 1.0].
Clamp(x) == IF RLt(x, Half) THEN Half ELSE IF RLt(One, x) THEN One ELSE x

NeededImages == NeededImageHeight(rendered_blocks, Len(rendered_blocks))
NeededGaps == NeededSpacing(rendered_blocks, Len(rendered_blocks))

\* The total required height exceeds the available height.
Overflows == RLt(Available, RAdd(NeededImages, NeededGaps))

\* C22 as stated: for every overflowing list _fit_content_width returns
\* the content width times (available - spacing) / image height clamped
\* to [0.5, 1.0].
C22_OverflowScaled ==
    (Fitted /\ Overflows) =>
        content_width =
            RMul(Hundredths(CONTENT_WIDTH),
                 Clamp(RDiv(RSub(Available, NeededGaps), NeededImages)))

\* The same when the spacing alone leaves room for the images.
C22_RoomLeft ==
    (Fitted /\ Overflows /\ RLt(NeededGaps, Available)) =>
        content_width =
            RMul(Hundredths(CONTENT_WIDTH),
                 Clamp(RDiv(RSub(Available, NeededGaps), NeededImages)))

\* C23: when the total required height (the last image of every block at
\* the base width, plus the spacing after every block but the last) is at
\* most the available height, _fit_content_width returns the base content
\* width.
C23_FitsUnscaled ==
    (Fitted /\ ~Overflows) => content_width = Hundredths(CONTENT_WIDTH)

\* C23 witness: a non-empty list whose required height is exactly the
\* available height was fitted at the base width.
C23_Witness ==
    /\ Fitted
    /\ rendered_blocks # <<>>
    /\ RAdd(NeededImages, NeededGaps) = Available
    /\ content_width = Hundredths(CONTENT_WIDTH)

\* C24: the total required height _fit_content_width computes is the
\* sum, over the blocks, of the height of the block's last image at the
\* base content width, plus the spacing of every block but the last; the
\* other images of a block do not count.  The width returned for a list
\* that overflows, above the floor, is the one at which that sum equals
\* the available height.
C24_TotalHeight ==
    /\ TotalImageHeight(rendered_blocks, Len(rendered_blocks)) = NeededImages
    /\ TotalSpacing(rendered_blocks, Len(rendered_blocks)) = NeededGaps
    /\ TotalHeight(rendered_blocks) = RAdd(NeededImages, NeededGaps)
    /\ (Fitted /\ Overflows
           /\ RLe(RMul(Half, NeededImages), RSub(Available, NeededGaps)))
          => RMul(content_width, NeededImages)
                 = RMul(Hundredths(CONTENT_WIDTH),
                        RSub(Available, NeededGaps))

\* C24 witness: two blocks, the first with a first image of another shape
\* than its last, were fitted to the width that makes the last images and
\* the one gap fill the available height.
C24_Witness ==
    /\ Fitted
    /\ Len(rendered_blocks) = 2
    /\ Len(rendered_blocks[1].image_paths) = 2
    /\ rendered_blocks[1].image_paths[1].h * rendered_blocks[1].image_paths[2].w
           # rendered_blocks[1].image_paths[2].h * rendered_blocks[1].image_paths[1].w
    /\ NeededGaps = Hundredths(rendered_blocks[1].spacing)
    /\ RLt(Half, RDiv(RSub(Available, NeededGaps), NeededImages))
    /\ Overflows
    /\ RMul(content_width, NeededImages)
           = RMul(Hundredths(CONTENT_WIDTH), RSub(Available, NeededGaps))

---------------------------------------------------------------------------
(* Claims about Pass 3 *)

\* The start offset plus, for every block before block j, the height of
\* its last shape and its spacing.
RECURSIVE BlockTop(_)
BlockTop(j) ==
    IF j = 1 THEN StartTop(has_bg, frame.title)
    ELSE LET shapes == shapes_by_block[j - 1].shapes
         IN  RAdd(BlockTop(j - 1),
                  RAdd(EmuInches(shapes[Len(shapes)].height),
                       Hundredths(rendered_blocks[j - 1].spacing)))

\* C25: the shapes of one block all have the same left, top and width;
\* the top of block j is the start offset plus the last-step height and the
\* spacing of every block before it, and the cursor stands one block
\* further.
C25_Placement ==
    pc = "place" =>
        /\ \A j \in 1..Len(shapes_by_block) :
              LET shapes == shapes_by_block[j].shapes
              IN  /\ Len(shapes) = Len(rendered_blocks[j].image_paths)
                  /\ \A i \in 1..Len(shapes) :
                        /\ shapes[i].left = Inches(LeftMargin(has_bg))
                        /\ shapes[i].top = Inches(BlockTop(j))
                        /\ shapes[i].width = Inches(content_width)
        /\ current_top = BlockTop(Len(shapes_by_block) + 1)

\* C25 witness: a block of two steps of different heights followed by a
\* second block, both placed; the second block is below the start offset.
C25_Witness ==
    /\ Placed
    /\ Len(shapes_by_block) = 2
    /\ StepCount(1) = 2
    /\ shapes_by_block[1].shapes[1].height # shapes_by_block[1].shapes[2].height
    /\ shapes_by_block[1].shapes[1].top = shapes_by_block[1].shapes[2].top
    /\ shapes_by_block[2].shapes[1].top > shapes_by_block[1].shapes[2].top

---------------------------------------------------------------------------
(* Claims about the order of the passes of _process_frame *)

\* The pass _process_frame is in: Pass 1, the fit, Pass 3, the
\* animations, the return.
Phase ==
    CASE pc = "render" -> 0
      [] pc = "fit" -> 1
      [] pc = "place" -> 2
      [] pc \in {"anim_block", "anim_appear", "anim_disappear"} -> 3
      [] OTHER -> 4

\* The block (position in shapes_by_block) a shape was placed for.
BlockOfShape(shape_id) ==
    CHOOSE j \in 1..Len(shapes_by_block) :
        \E i \in 1..Len(shapes_by_block[j].shapes) :
            shapes_by_block[j].shapes[i].shape_id = shape_id

\* The backend was called block after block, and step after step within a
\* block.
BackendInOrder ==
    \A k, l \in 1..Len(backend) :
        k < l => \/ backend[k].block_idx < backend[l].block_idx
                 \/ /\ backend[k].block_idx = backend[l].block_idx
                    /\ backend[k].step < backend[l].step

PhaseInv ==
    /\ BackendInOrder
    /\ Phase = 0 => /\ Len(backend) > 0 =>
                          backend[Len(backend)].block_idx < block_pos
                    /\ content_width = ContentWidth
    /\ Phase <= 1 => place_pos = 0 /\ shapes_by_block = <<>>
    /\ Phase >= 1 => block_pos = Len(frame.blocks)
    /\ Phase <= 2 => calls = <<>>
    /\ Phase >= 3 => Len(shapes_by_block) = Len(rendered_blocks)
    /\ \A k, l \in 1..Len(calls) :
          k < l => BlockOfShape(calls[k].shape_id)
                       <= BlockOfShape(calls[l].shape_id)

\* C26: within a frame every block is rendered, in block and step order,
\* before the fit; the fit is one step, taken once; every shape is placed
\* before the first animation call; the animation calls follow the order
\* of the blocks; no pass is entered again.
C26_PhaseOrder ==
    /\ []PhaseInv
    /\ [][/\ Phase' >= Phase
          /\ Phase' <= Phase + 1
          /\ Phase = 1 => Phase' = 2
          /\ content_width' # content_width => Phase = 1]_vars

\* C26 witness: a frame of two blocks of two steps each, all four backend
\* calls succeeding, after _add_animations has returned.
C26_Witness ==
    /\ AnimDone
    /\ Len(backend) = 4
    /\ Len(shapes_by_block) = 2
    /\ StepCount(1) = 2 /\ StepCount(2) = 2
    /\ Len(Appears) = 4
    /\ Len(Disappears) = 2

---------------------------------------------------------------------------
(* Claims about the slides _add_animations leaves *)

\* The clicks (positions of click nodes) at which the tree has an effect
\* of this class on this shape, one entry per effect.
EffectClicks(class, shape_id) ==
    {<<n, k>> \in (1..Len(slide.timing.clicks)) \X (1..2) :
        /\ k <= Len(slide.timing.clicks[n].children)
        /\ slide.timing.clicks[n].children[k].presetClass = class
        /\ slide.timing.clicks[n].children[k].spid = shape_id}

LastShapeIds ==
    {shapes_by_block[j].shapes[StepCount(j)].shape_id :
        j \in 1..Len(shapes_by_block)}

\* C27: in the tree _add_animations built every content shape has one
\* entrance effect; every shape but the last of its block has one exit
\* effect, in the click node right after the one of its entrance; the
\* last shape of a block has none; after the last click the visible
\* shapes are the last shapes of the blocks.
C27_Replay ==
    AnimDone =>
        /\ \A j \in 1..Len(shapes_by_block) : \A i \in 1..StepCount(j) :
              LET id    == shapes_by_block[j].shapes[i].shape_id
                  entr  == EffectClicks("entr", id)
                  exits == EffectClicks("exit", id)
              IN  /\ Cardinality(entr) = 1
                  /\ IF i < StepCount(j)
                     THEN /\ Cardinality(exits) = 1
                          /\ \A a \in entr, d \in exits : d[1] = a[1] + 1
                     ELSE exits = {}
        /\ \A n \in 1..Len(slide.timing.clicks) :
              Len(slide.timing.clicks[n].children) <= 2
        /\ VisibleAfter(slide.timing.clicks, Len(slide.timing.clicks))
               = LastShapeIds

\* C27 witness: blocks of two steps, one step and two steps; after the
\* five clicks the second, third and fifth content shapes are visible.
C27_Witness ==
    /\ AnimDone
    /\ Len(shapes_by_block) = 3
    /\ StepCount(1) = 2 /\ StepCount(2) = 1 /\ StepCount(3) = 2
    /\ Len(slide.timing.clicks) = 5
    /\ Cardinality(VisibleAfter(slide.timing.clicks, 5)) = 3
    /\ EffectClicks("exit", shapes_by_block[3].shapes[1].shape_id)
           = {<<5, 2>>}

---------------------------------------------------------------------------
(* _add_animations on a block of many steps *)

\* The steps of the longest block: twelve, as a list of twelve items.
MaxLongSteps == 12

\* One cumulative block of k steps, alone or followed by a one-step block.
LongInputs ==
    {Numbered(<<[block_idx |-> 0, image_paths |-> StepImages(k),
                 is_animated |-> TRUE, spacing |-> ENV_SPACING]>> \o tail) :
        k \in 1..MaxLongSteps,
        tail \in {<<>>, <<[block_idx |-> 0, image_paths |-> StepImages(1),
                          is_animated |-> FALSE, spacing |-> TEXT_SPACING]>>}}

InitLong ==
    /\ pc = "fit"
    /\ frame = [title |-> "Title", blocks |-> <<>>]
    /\ has_bg \in BOOLEAN
    /\ slide = FrameSetup(EmptySlide, has_bg, frame)
    /\ rendered_blocks \in LongInputs
    /\ content_width = ContentWidth
    /\ current_top = Zero
    /\ place_pos = 0
    /\ shapes_by_block = <<>>
    /\ click_index = 0
    /\ anim_pos = 0
    /\ shape_idx = 0
    /\ calls = <<>>
    /\ block_pos = 0
    /\ backend = <<>>
    /\ deck = <<frame>>
    /\ frame_idx = 1
    /\ prs = <<>>
    /\ beamer_pdf_path = has_bg

SpecLong == InitLong /\ [][NextAnim]_vars

\* The id attributes of the cTn elements of the timing tree, in document
\* order: the root, the sequence, and for every click node its own id and
\* the three ids of each of its effects.
EffectIds(e) == <<e.id, e.set_id, e.inner_id>>

RECURSIVE ChildrenIds(_, _)
ChildrenIds(children, k) ==
    IF k = 0 THEN <<>>
    ELSE ChildrenIds(children, k - 1) \o EffectIds(children[k])

RECURSIVE ClickIds(_, _)
ClickIds(clicks, n) ==
    IF n = 0 THEN <<>>
    ELSE ClickIds(clicks, n - 1) \o <<clicks[n].id>>
             \o ChildrenIds(clicks[n].children, Len(clicks[n].children))

TimeNodeIds ==
    slide.timing.cTn \o slide.timing.seq
        \o ClickIds(slide.timing.clicks, Len(slide.timing.clicks))

\* C28 as stated: after _add_animations the cTn ids of the slide's timing
\* tree are pairwise distinct.
C28_DistinctIds ==
    AnimDone =>
        \A i, j \in 1..Len(TimeNodeIds) :
            TimeNodeIds[i] = TimeNodeIds[j] => i = j

\* The exit effect of a disappear call is in the click node at the
\* position of its click index.
Landed(call) ==
    /\ call.click_index < Len(slide.timing.clicks)
    /\ \E k \in 1..Len(slide.timing.clicks[call.click_index + 1].children) :
          LET e == slide.timing.clicks[call.click_index + 1].children[k]
          IN  /\ e.presetClass = "exit"
              /\ e.spid = call.shape_id
              /\ EventOf(e).click_index = call.click_index

\* C29: during _add_animations the sequence holds one click node per
\* appear call made so far, c + 1 of them after the appear call for click
\* index c, the node at position j being the one made for click index j;
\* every disappear call made so far has put its exit effect into the node
\* of its click index.
C29_NodesByPosition ==
    /\ Len(slide.timing.clicks) = Len(Appears)
    /\ \A j \in 1..Len(slide.timing.clicks) :
          ClickOf(slide.timing.clicks[j]) = j - 1
    /\ (calls # <<>> /\ calls[Len(calls)].op = "appear")
           => Len(slide.timing.clicks) = calls[Len(calls)].click_index + 1
    /\ \A k \in 1..Len(Disappears) : Landed(Disappears[k])

\* C29 witness: the disappear call at click 4, the last of three blocks,
\* has put its exit effect into the fifth click node.
C29_Witness ==
    /\ pc = "anim_block"
    /\ Len(calls) = 7
    /\ calls[7].op = "disappear" /\ calls[7].click_index = 4
    /\ Len(slide.timing.clicks) = 5
    /\ Len(slide.timing.clicks[5].children) = 2
    /\ slide.timing.clicks[5].children[2].presetClass = "exit"

---------------------------------------------------------------------------
(* Claims about the top offset *)

\* C30 as stated: the first block is placed at the top offset that
\* _fit_content_width subtracted from the slide height, whatever the
\* background and the title.
C30_SameTopOffset ==
    (pc = "place" /\ Len(shapes_by_block) >= 1) =>
        /\ shapes_by_block[1].shapes[1].top = Inches(TopStart(has_bg))
        /\ RSub(RSub(Hundredths(SLIDE_HEIGHT), StartTop(has_bg, frame.title)),
                BottomMargin(has_bg)) = AvailableHeight(has_bg)

\* The same for the slides with a background or a title.
C30_TitledOrBackground ==
    (pc = "place" /\ Len(shapes_by_block) >= 1
        /\ (has_bg \/ frame.title # "")) =>
        shapes_by_block[1].shapes[1].top = Inches(TopStart(has_bg))

===========================================================================
